---- MODULE Spec2Model ----
(***************************************************************************)
(* tagname: rename media files by substituting metadata fields into a     *)
(* filename template (src/main.rs).                                       *)
(*                                                                         *)
(* Strings are sequences of one-character strings.  Option<T> is a        *)
(* sequence of length 0 (None) or 1 (Some(v)).  Result<T, Error> is a      *)
(* record [ok |-> TRUE, val |-> v] or [ok |-> FALSE, err |-> e].           *)
(***************************************************************************)
EXTENDS Integers, Sequences, FiniteSets

VARIABLES
    template,   \* Args.template, the raw template string
    meta,       \* the metadata record handed to Format::build_name
    files,      \* Args.paths with what the metadata reader yields for each
    pc,         \* position in the operation under way
    format,     \* the result of Format::from_template
    built,      \* the result of Format::build_name with its accessor log
    idx,        \* run: index of the next path of the for loop
    reads,      \* run: the paths handed to read_from_path so far, in order
    stdout,     \* run: the lines printed so far, in order
    ret         \* run: the value returned (NotYet while running)

vars == <<template, meta, files, pc, format, built, idx, reads, stdout, ret>>

----------------------------------------------------------------------------
(* Result and Option                                                       *)

Ok(v) == [ok |-> TRUE, val |-> v]

Err(e) == [ok |-> FALSE, err |-> e]

None == <<>>

Some(v) == <<v>>

NotYet == [pending |-> TRUE]

ErrorFormat(key) == [kind |-> "Format", key |-> key]

ErrorMissingTag(tag) == [kind |-> "MissingTag", tag |-> tag]

ErrorAudioTags == [kind |-> "AudioTags"]

----------------------------------------------------------------------------
(* Characters and the field keys                                           *)

Lower ==
    {"a", "b", "c", "d", "e", "f", "g", "h", "i", "j", "k", "l", "m",
     "n", "o", "p", "q", "r", "s", "t", "u", "v", "w", "x", "y", "z"}

KeyAlbum == <<"a", "l", "b", "u", "m">>

KeyArtist == <<"a", "r", "t", "i", "s", "t">>

KeyTitle == <<"t", "i", "t", "l", "e">>

KeyTrack == <<"t", "r", "a", "c", "k">>

KeyYear == <<"y", "e", "a", "r">>

Tags == {"Album", "Artist", "Title", "Track", "Year"}

\* str::trim_start_matches(c): drop every leading occurrence of c.
RECURSIVE TrimStartMatches(_, _)
TrimStartMatches(s, c) ==
    IF s # <<>> /\ Head(s) = c THEN TrimStartMatches(Tail(s), c) ELSE s

\* impl FromStr for Tag.
TagFromStr(s) ==
    LET t == TrimStartMatches(s, "%") IN
    CASE t = KeyAlbum  -> Ok("Album")
      [] t = KeyArtist -> Ok("Artist")
      [] t = KeyTitle  -> Ok("Title")
      [] t = KeyTrack  -> Ok("Track")
      [] t = KeyYear   -> Ok("Year")
      [] OTHER         -> Err(ErrorFormat(t))

----------------------------------------------------------------------------
(* The regex (%[a-z]+)|([^%]+) and captures_iter                           *)

IsLower(c) == c \in Lower

NotPercent(c) == c # "%"

\* The last index of the longest run of lowercase letters starting at i,
\* given that s[i] is one: the greedy [a-z]+ at i.
LowerRunEnd(s, i) ==
    CHOOSE j \in i..Len(s) :
        /\ \A k \in i..j : IsLower(s[k])
        /\ j = Len(s) \/ ~IsLower(s[j + 1])

\* The same for the characters other than "%": the greedy [^%]+ at i.
NotPercentRunEnd(s, i) ==
    CHOOSE j \in i..Len(s) :
        /\ \A k \in i..j : NotPercent(s[k])
        /\ j = Len(s) \/ ~NotPercent(s[j + 1])

\* The match of the regex anchored at position i, or None.  Group 1 is
\* tried first; the two alternatives start on different characters.
MatchAt(s, i) ==
    IF s[i] = "%"
    THEN IF i + 1 <= Len(s) /\ IsLower(s[i + 1])
         THEN Some([g1 |-> Some(SubSeq(s, i, LowerRunEnd(s, i + 1))),
                    g2 |-> None,
                    end |-> LowerRunEnd(s, i + 1)])
         ELSE None
    ELSE Some([g1 |-> None,
               g2 |-> Some(SubSeq(s, i, NotPercentRunEnd(s, i))),
               end |-> NotPercentRunEnd(s, i)])

\* A captures_iter that reports an unmatched character as an empty group 2.
RECURSIVE CapturesIterEmpty(_, _)
CapturesIterEmpty(s, pos) ==
    IF pos > Len(s) THEN <<>>
    ELSE LET m == MatchAt(s, pos) IN
         IF m = None
         THEN <<[g1 |-> None, g2 |-> Some(<<>>), end |-> pos]>>
                  \o CapturesIterEmpty(s, pos + 1)
         ELSE <<m[1]>> \o CapturesIterEmpty(s, m[1].end + 1)

\* Regex::captures_iter from position pos: the successive non-overlapping
\* leftmost matches; a position where the regex does not match is skipped.
RECURSIVE CapturesIter(_, _)
CapturesIter(s, pos) ==
    IF pos > Len(s) THEN <<>>
    ELSE LET m == MatchAt(s, pos) IN
         IF m = None
         THEN CapturesIter(s, pos + 1)
         ELSE <<m[1]>> \o CapturesIter(s, m[1].end + 1)

----------------------------------------------------------------------------
(* Format::from_template                                                   *)

ElementTag(tag) == [kind |-> "Tag", tag |-> tag]

ElementLiteral(text) == [kind |-> "Literal", text |-> text]

\* The closure of the map: one capture to Result<Element>.
MapCapture(cx) ==
    IF cx.g1 # None
    THEN LET r == TagFromStr(cx.g1[1]) IN
         IF r.ok THEN Ok(ElementTag(r.val)) ELSE r
    ELSE Ok(ElementLiteral(cx.g2[1]))

\* A collect that keeps going after an error and reports the last one.
RECURSIVE CollectLastErr(_, _, _)
CollectLastErr(caps, acc, e) ==
    IF caps = <<>> THEN (IF e = None THEN Ok(acc) ELSE Err(e[1]))
    ELSE LET r == MapCapture(Head(caps)) IN
         IF r.ok THEN CollectLastErr(Tail(caps), Append(acc, r.val), e)
         ELSE CollectLastErr(Tail(caps), acc, Some(r.err))

\* collect::<Result<Vec<_>>>(): the elements in order, or the first error,
\* at which the iteration stops.
RECURSIVE Collect(_, _)
Collect(caps, acc) ==
    IF caps = <<>> THEN Ok(acc)
    ELSE LET r == MapCapture(Head(caps)) IN
         IF r.ok THEN Collect(Tail(caps), Append(acc, r.val)) ELSE r

FromTemplateLastErr(t) == CollectLastErr(CapturesIter(t, 1), <<>>, None)

\* Format::from_template: Ok(elements) or Err(Error::Format(key)).
FromTemplate(t) == Collect(CapturesIter(t, 1), <<>>)

----------------------------------------------------------------------------
(* Tag::read_from and Format::build_name                                   *)

DigitChar(d) ==
    CASE d = 0 -> "0" [] d = 1 -> "1" [] d = 2 -> "2" [] d = 3 -> "3"
      [] d = 4 -> "4" [] d = 5 -> "5" [] d = 6 -> "6" [] d = 7 -> "7"
      [] d = 8 -> "8" [] d = 9 -> "9"

\* The decimal digits of a natural number, most significant first.
RECURSIVE Digits(_)
Digits(n) ==
    IF n < 10 THEN <<DigitChar(n)>>
    ELSE Append(Digits(n \div 10), DigitChar(n % 10))

\* A to_string that pads to two digits.
IntToStringPadded(n) ==
    IF n < 0 THEN <<"-">> \o Digits(-n)
    ELSE IF n < 10 THEN <<"0">> \o Digits(n) ELSE Digits(n)

\* to_string of a u16 (track_number) or an i32 (year): the decimal digits,
\* with a leading "-" for a negative value.
IntToString(n) == IF n < 0 THEN <<"-">> \o Digits(-n) ELSE Digits(n)

\* Tag::read_from: the field's text, or Error::MissingTag(self).  meta is
\* the record of what the accessors album(), artist(), title(),
\* track_number() and year() return.
ReadFrom(tag, m) ==
    CASE tag = "Album" ->
             IF m.album = None THEN Err(ErrorMissingTag(tag))
             ELSE Ok(m.album[1].title)
      [] tag = "Artist" ->
             IF m.artist = None THEN Err(ErrorMissingTag(tag))
             ELSE Ok(m.artist[1])
      [] tag = "Title" ->
             IF m.title = None THEN Err(ErrorMissingTag(tag))
             ELSE Ok(m.title[1])
      [] tag = "Track" ->
             IF m.track_number = None THEN Err(ErrorMissingTag(tag))
             ELSE Ok(IntToString(m.track_number[1]))
      [] tag = "Year" ->
             IF m.year = None THEN Err(ErrorMissingTag(tag))
             ELSE Ok(IntToString(m.year[1]))

\* A loop that does not return at a missing tag: it resolves the remaining
\* elements and reports the last error.
RECURSIVE BuildLoopKeepGoing(_, _, _, _, _)
BuildLoopKeepGoing(elements, m, f, log, e) ==
    IF elements = <<>>
    THEN [res |-> IF e = None THEN Ok(f) ELSE Err(e[1]), queried |-> log]
    ELSE LET el == Head(elements) IN
         IF el.kind = "Tag"
         THEN LET r == ReadFrom(el.tag, m) IN
              IF r.ok
              THEN BuildLoopKeepGoing(Tail(elements), m, f \o r.val,
                                      Append(log, el.tag), e)
              ELSE BuildLoopKeepGoing(Tail(elements), m, f,
                                      Append(log, el.tag), Some(r.err))
         ELSE BuildLoopKeepGoing(Tail(elements), m, f \o el.text, log, e)

\* The for loop of build_name over the remaining elements: f is the string
\* built so far, log the tags whose accessor was queried so far.
RECURSIVE BuildLoop(_, _, _, _)
BuildLoop(elements, m, f, log) ==
    IF elements = <<>> THEN [res |-> Ok(f), queried |-> log]
    ELSE LET el == Head(elements) IN
         IF el.kind = "Tag"
         THEN LET r == ReadFrom(el.tag, m) IN
              IF r.ok
              THEN BuildLoop(Tail(elements), m, f \o r.val,
                             Append(log, el.tag))
              ELSE [res |-> r, queried |-> Append(log, el.tag)]
         ELSE BuildLoop(Tail(elements), m, f \o el.text, log)

BuildNameKeepGoing(elements, m) ==
    BuildLoopKeepGoing(elements, m, <<>>, <<>>, None)

\* Format::build_name: res is the Result<String> returned, queried the
\* accessors the call queried, in order.
BuildName(elements, m) == BuildLoop(elements, m, <<>>, <<>>)

----------------------------------------------------------------------------
(* Inputs                                                                  *)

MaxPieces == 4

MaxBuildPieces == 3

RefAlbum == <<"%">> \o KeyAlbum

RefArtist == <<"%">> \o KeyArtist

RefTitle == <<"%">> \o KeyTitle

RefTrack == <<"%">> \o KeyTrack

RefYear == <<"%">> \o KeyYear

Refs == {RefAlbum, RefArtist, RefTitle, RefTrack, RefYear}

\* Template fragments: a bare "%", a character that is neither "%" nor a
\* lowercase letter, two lowercase letters, and the five field references.
Pieces == {<<"%">>, <<"3">>, <<"a">>, <<"z">>} \cup Refs

BuildPieces == {<<"%">>, <<"3">>} \cup Refs

\* The strings made of at most n pieces of P.
RECURSIVE TemplatesOf(_, _)
TemplatesOf(P, n) ==
    IF n = 0 THEN {<<>>}
    ELSE LET prev == TemplatesOf(P, n - 1) IN
         prev \cup {t \o p : t \in prev, p \in P}

\* Metadata records: every field present or absent.
Records ==
    [album : {None, Some([title |-> <<"L", "p">>])},
     artist : {None, Some(<<"A", "/", "C">>)},
     title : {None, Some(<<"T">>)},
     track_number : {None, Some(7), Some(10)},
     year : {None, Some(1998)}]

Idle ==
    /\ files = <<>>
    /\ idx = 0
    /\ reads = <<>>
    /\ stdout = <<>>
    /\ ret = NotYet

----------------------------------------------------------------------------
(* Compiling a template, and building a name from one record               *)

InitCompile ==
    /\ template \in TemplatesOf(Pieces, MaxPieces)
    /\ meta = None
    /\ pc = "compile"
    /\ format = NotYet
    /\ built = NotYet
    /\ Idle

InitBuild ==
    /\ template \in TemplatesOf(BuildPieces, MaxBuildPieces)
    /\ meta \in Records
    /\ pc = "compile"
    /\ format = NotYet
    /\ built = NotYet
    /\ Idle

\* let format = Format::from_template(&template)
Compile ==
    /\ pc = "compile"
    /\ format' = FromTemplate(template)
    /\ pc' = "compiled"
    /\ UNCHANGED <<template, meta, files, built, idx, reads, stdout, ret>>

\* format.build_name(&meta) on a compiled format
Build ==
    /\ pc = "compiled"
    /\ format.ok
    /\ built' = BuildName(format.val, meta)
    /\ pc' = "built"
    /\ UNCHANGED <<template, meta, files, format, idx, reads, stdout, ret>>

NextCompile == Compile

SpecCompile == InitCompile /\ [][NextCompile]_vars

NextBuild == Compile \/ Build

SpecBuild == InitBuild /\ [][NextBuild]_vars

----------------------------------------------------------------------------
(* std::path on Unix: extension, with_file_name                            *)

HasRoot(p) == p # <<>> /\ p[1] = "/"

\* Components::include_cur_dir: a leading "." that is a component.
IncludeCurDir(p) ==
    /\ ~HasRoot(p)
    /\ p # <<>>
    /\ p[1] = "."
    /\ Len(p) = 1 \/ p[2] = "/"

LenBeforeBody(p) ==
    (IF HasRoot(p) THEN 1 ELSE 0) + (IF IncludeCurDir(p) THEN 1 ELSE 0)

\* Components::parse_next_component_back: the text after the last
\* separator of the body, and the bytes it takes with that separator.
ParseBack(p) ==
    LET start == LenBeforeBody(p)
        seps == {i \in (start + 1)..Len(p) : p[i] = "/"}
        from == IF seps = {} THEN start + 1
                ELSE (CHOOSE i \in seps : \A j \in seps : j <= i) + 1
        comp == SubSeq(p, from, Len(p))
    IN [size |-> Len(comp) + (IF seps = {} THEN 0 ELSE 1),
        comp |-> CASE comp = <<".", ".">> -> Some([kind |-> "ParentDir"])
                   [] comp = <<".">> \/ comp = <<>> -> None
                   [] OTHER -> Some([kind |-> "Normal", name |-> comp])]

\* Components::next_back: the last component and the path before it.
RECURSIVE NextBack(_)
NextBack(p) ==
    IF Len(p) > LenBeforeBody(p)
    THEN LET b == ParseBack(p)
             rest == SubSeq(p, 1, Len(p) - b.size)
         IN IF b.comp # None THEN [comp |-> b.comp, rest |-> rest]
            ELSE NextBack(rest)
    ELSE IF HasRoot(p)
         THEN [comp |-> Some([kind |-> "RootDir"]),
               rest |-> SubSeq(p, 1, Len(p) - 1)]
         ELSE IF IncludeCurDir(p)
              THEN [comp |-> Some([kind |-> "CurDir"]),
                    rest |-> SubSeq(p, 1, Len(p) - 1)]
              ELSE [comp |-> None, rest |-> p]

\* Components::trim_right: drop trailing separators and "." components.
RECURSIVE TrimRight(_)
TrimRight(p) ==
    IF Len(p) > LenBeforeBody(p)
    THEN LET b == ParseBack(p) IN
         IF b.comp # None THEN p
         ELSE TrimRight(SubSeq(p, 1, Len(p) - b.size))
    ELSE p

\* Path::file_name: the last component when it is a normal one.
FileName(p) ==
    LET c == NextBack(p).comp IN
    IF c # None /\ c[1].kind = "Normal" THEN Some(c[1].name) ELSE None

\* Path::parent: the path without its last component; None when the path
\* ends in a root or is empty.
Parent(p) ==
    LET nb == NextBack(p) IN
    IF nb.comp # None /\ nb.comp[1].kind \in {"Normal", "ParentDir"}
    THEN Some(TrimRight(nb.rest))
    ELSE IF nb.comp # None /\ nb.comp[1].kind = "CurDir"
         THEN Some(nb.rest)
         ELSE None

\* rsplit_file_at_dot: (before, after) the last "." of a file name.
RsplitFileAtDot(file) ==
    LET dots == {i \in 1..Len(file) : file[i] = "."}
        last == CHOOSE i \in dots : \A j \in dots : j <= i
    IN IF file = <<".", ".">> \/ (dots # {} /\ last = 1)
       THEN [before |-> Some(file), after |-> None]
       ELSE IF dots = {}
            THEN [before |-> None, after |-> Some(file)]
            ELSE [before |-> Some(SubSeq(file, 1, last - 1)),
                  after |-> Some(SubSeq(file, last + 1, Len(file)))]

\* Path::extension.
Extension(p) ==
    IF FileName(p) = None THEN None
    ELSE LET r == RsplitFileAtDot(FileName(p)[1]) IN
         IF r.before # None THEN r.after ELSE None

\* PathBuf::push: an absolute path replaces the buffer; otherwise it is
\* appended, after a separator when the buffer does not end in one.
Push(buf, path) ==
    IF HasRoot(path) THEN path
    ELSE IF buf # <<>> /\ buf[Len(buf)] # "/" THEN buf \o <<"/">> \o path
         ELSE buf \o path

\* Path::with_file_name: set_file_name on a copy, which pops the file name
\* (truncates to the parent) when there is one, then pushes the name.
WithFileName(p, name) ==
    IF FileName(p) # None THEN Push(Parent(p)[1], name) ELSE Push(p, name)

----------------------------------------------------------------------------
(* run                                                                     *)

MaxPaths == 3

RunTemplates ==
    {RefArtist,
     RefTrack,
     RefAlbum \o <<"3">> \o RefYear,
     <<"3", "%">>,
     <<"%", "z">>,
     RefTitle \o <<"%", "a">>}

PathSet ==
    {<<"f", ".", "m">>,
     <<"d", "/", "f", ".", "m">>,
     <<"/", "f", ".", "a", ".", "m">>,
     <<"d", "/", "/", ".", "m">>,
     <<".", ".">>}

RecFull ==
    [album |-> Some([title |-> <<"L", "p">>]),
     artist |-> Some(<<"A", "/", "C">>),
     title |-> Some(<<"T">>),
     track_number |-> Some(7),
     year |-> Some(1998)]

RunRecords ==
    {RecFull,
     [RecFull EXCEPT !.album = None],
     [RecFull EXCEPT !.album = None, !.artist = None, !.year = None]}

\* What audiotags::Tag::new().read_from_path yields for a file: the
\* metadata, or an error of the reader.
Contents == {Err(ErrorAudioTags)} \cup {Ok(r) : r \in RunRecords}

FilesOf(n) == UNION {[1..k -> [path : PathSet, content : Contents]] : k \in 0..n}

Init ==
    /\ template \in RunTemplates
    /\ files \in FilesOf(MaxPaths)
    /\ \A i, j \in 1..Len(files) :
           files[i].path = files[j].path
               => files[i].content = files[j].content
    /\ \A i \in 1..Len(files) :
           FileName(files[i].path) = None => ~files[i].content.ok
    /\ meta = None
    /\ pc = "run"
    /\ format = NotYet
    /\ built = NotYet
    /\ idx = 0
    /\ reads = <<>>
    /\ stdout = <<>>
    /\ ret = NotYet

\* The path printed for path p and the built name: the name, with "." and
\* the extension of p pushed when p has one, as the file name of p.
NewPath(p, name) ==
    WithFileName(p,
                 IF Extension(p) # None
                 THEN name \o <<".">> \o Extension(p)[1]
                 ELSE name)

\* A first statement that goes on, with no element, after a bad template.
RunCompileLenient ==
    /\ pc = "run"
    /\ format' = IF FromTemplate(template).ok THEN FromTemplate(template)
                 ELSE Ok(<<>>)
    /\ pc' = "loop"
    /\ idx' = 1
    /\ UNCHANGED <<template, meta, files, built, reads, stdout, ret>>

\* let format = Format::from_template(&args.template)?
RunCompile ==
    /\ pc = "run"
    /\ format' = FromTemplate(template)
    /\ IF format'.ok
       THEN /\ pc' = "loop" /\ idx' = 1 /\ UNCHANGED ret
       ELSE /\ pc' = "done" /\ ret' = Err(format'.err) /\ UNCHANGED idx
    /\ UNCHANGED <<template, meta, files, built, reads, stdout>>

\* One iteration: read_from_path(path)? fails and run returns the error.
RunReadErr ==
    /\ pc = "loop"
    /\ idx <= Len(files)
    /\ ~files[idx].content.ok
    /\ reads' = Append(reads, files[idx].path)
    /\ ret' = files[idx].content
    /\ pc' = "done"
    /\ UNCHANGED <<template, meta, files, format, built, idx, stdout>>

\* An iteration that skips a file whose name cannot be built.
RunBuildErrSkip ==
    /\ pc = "loop"
    /\ idx <= Len(files)
    /\ files[idx].content.ok
    /\ ~BuildName(format.val, files[idx].content.val).res.ok
    /\ reads' = Append(reads, files[idx].path)
    /\ idx' = idx + 1
    /\ UNCHANGED <<template, meta, files, pc, format, built, stdout, ret>>

\* One iteration: the metadata is read, format.build_name(&meta)? fails and
\* run returns the error.
RunBuildErr ==
    /\ pc = "loop"
    /\ idx <= Len(files)
    /\ files[idx].content.ok
    /\ ~BuildName(format.val, files[idx].content.val).res.ok
    /\ reads' = Append(reads, files[idx].path)
    /\ ret' = BuildName(format.val, files[idx].content.val).res
    /\ pc' = "done"
    /\ UNCHANGED <<template, meta, files, format, built, idx, stdout>>

\* One iteration: the metadata is read, the name is built and the new path
\* is printed.
RunPrint ==
    /\ pc = "loop"
    /\ idx <= Len(files)
    /\ files[idx].content.ok
    /\ BuildName(format.val, files[idx].content.val).res.ok
    /\ reads' = Append(reads, files[idx].path)
    /\ stdout' =
           Append(stdout,
                  NewPath(files[idx].path,
                          BuildName(format.val, files[idx].content.val).res.val))
    /\ idx' = idx + 1
    /\ UNCHANGED <<template, meta, files, pc, format, built, ret>>

\* The loop is over: Ok(())
RunReturn ==
    /\ pc = "loop"
    /\ idx > Len(files)
    /\ ret' = Ok(<<>>)
    /\ pc' = "done"
    /\ UNCHANGED <<template, meta, files, format, built, idx, reads, stdout>>

Next == RunCompile \/ RunReadErr \/ RunBuildErr \/ RunPrint \/ RunReturn

Spec == Init /\ [][Next]_vars

----------------------------------------------------------------------------
(* Properties of Format::from_template                                     *)

KeyOf(tag) ==
    CASE tag = "Album"  -> KeyAlbum
      [] tag = "Artist" -> KeyArtist
      [] tag = "Title"  -> KeyTitle
      [] tag = "Track"  -> KeyTrack
      [] tag = "Year"   -> KeyYear

FieldKeys == {KeyOf(tag) : tag \in Tags}

\* The template text an element sequence stands for: each Literal's text
\* and "%" followed by the key of each Tag, in element order.
RECURSIVE Render(_)
Render(elements) ==
    IF elements = <<>> THEN <<>>
    ELSE LET e == Head(elements) IN
         (IF e.kind = "Literal" THEN e.text ELSE <<"%">> \o KeyOf(e.tag))
             \o Render(Tail(elements))

\* The positions of the field-reference tokens of t: a "%" immediately
\* followed by a lowercase letter.
TokenStarts(t) ==
    {p \in 1..(Len(t) - 1) : t[p] = "%" /\ t[p + 1] \in Lower}

\* The key of the token at p: the maximal run of lowercase letters after
\* the "%".
KeyAt(t, p) ==
    LET stop == {q \in (p + 1)..Len(t) : t[q] \notin Lower}
        last == IF stop = {} THEN Len(t)
                ELSE (CHOOSE q \in stop : \A r \in stop : q <= r) - 1
    IN SubSeq(t, p + 1, last)

BadStarts(t) == {p \in TokenStarts(t) : KeyAt(t, p) \notin FieldKeys}

FirstOf(S) == CHOOSE p \in S : \A q \in S : p <= q

\* A "%" of t that starts no field-reference token.
IsolatedPercents(t) ==
    {p \in 1..Len(t) : t[p] = "%" /\ p \notin TokenStarts(t)}

Compiled == pc = "compiled"

\* C1: whenever from_template succeeds, rendering the elements in order
\* (Literal text, "%" + key for a Tag) reproduces the template exactly.
C1_Partition ==
    (Compiled /\ format.ok) => Render(format.val) = template

\* C3: from_template fails iff some field-reference token has a key outside
\* album, artist, title, track, year; the failure is Error::Format(key) for
\* the leftmost such token and carries no element list.
C3_UnknownField ==
    Compiled =>
        /\ ~format.ok <=> BadStarts(template) # {}
        /\ ~format.ok =>
               format =
                   Err(ErrorFormat(KeyAt(template,
                                         FirstOf(BadStarts(template)))))

\* C3 witness: a failed compilation of a template with two unknown tokens
\* of different keys.
C3_Witness ==
    /\ Compiled
    /\ ~format.ok
    /\ \E q, r \in BadStarts(template) :
           q < r /\ KeyAt(template, q) # KeyAt(template, r)

\* C9: no two consecutive elements produced by from_template are both
\* Literal.
C9_NoAdjacentLiterals ==
    (Compiled /\ format.ok) =>
        \A i \in 1..(Len(format.val) - 1) :
            ~(format.val[i].kind = "Literal"
                  /\ format.val[i + 1].kind = "Literal")

\* C10: every Literal element produced by from_template has non-empty text.
C10_NoEmptyLiteral ==
    (Compiled /\ format.ok) =>
        \A i \in 1..Len(format.val) :
            format.val[i].kind = "Literal" => format.val[i].text # <<>>

\* C10 witness: a successful compilation, with a Literal element, of a
\* template holding a "%" that starts no field reference.
C10_Witness ==
    /\ Compiled
    /\ format.ok
    /\ IsolatedPercents(template) # {}
    /\ \E i \in 1..Len(format.val) : format.val[i].kind = "Literal"

----------------------------------------------------------------------------
(* Properties of Format::build_name                                        *)

Built == pc = "built"

\* Whether the record has no value for the field.
Absent(tag, m) ==
    CASE tag = "Album"  -> m.album = None
      [] tag = "Artist" -> m.artist = None
      [] tag = "Title"  -> m.title = None
      [] tag = "Track"  -> m.track_number = None
      [] tag = "Year"   -> m.year = None

\* The indices of the Tag elements whose field the record lacks.
MissingAt(elements, m) ==
    {i \in 1..Len(elements) :
        elements[i].kind = "Tag" /\ Absent(elements[i].tag, m)}

\* The tags of the Tag elements among the first n elements, in order.
RECURSIVE TagsUpTo(_, _)
TagsUpTo(elements, n) ==
    IF n = 0 THEN <<>>
    ELSE IF elements[n].kind = "Tag"
         THEN Append(TagsUpTo(elements, n - 1), elements[n].tag)
         ELSE TagsUpTo(elements, n - 1)

\* The number a string of decimal digits denotes.
RECURSIVE DecimalValue(_)
DecimalValue(s) ==
    IF s = <<>> THEN 0
    ELSE 10 * DecimalValue(SubSeq(s, 1, Len(s) - 1))
             + (CHOOSE d \in 0..9 : DigitChar(d) = s[Len(s)])

\* s is the plain decimal string of the natural number n: its digits, with
\* no leading zero and nothing else.
IsPlainDecimal(s, n) ==
    /\ s # <<>>
    /\ \A i \in 1..Len(s) : \E d \in 0..9 : s[i] = DigitChar(d)
    /\ Len(s) > 1 => s[1] # "0"
    /\ DecimalValue(s) = n

\* The text an element contributes for a record that has the field.
IsResolved(el, m, s) ==
    CASE el.kind = "Literal" -> s = el.text
      [] el.tag = "Album"  -> s = m.album[1].title
      [] el.tag = "Artist" -> s = m.artist[1]
      [] el.tag = "Title"  -> s = m.title[1]
      [] el.tag = "Track"  -> IsPlainDecimal(s, m.track_number[1])
      [] el.tag = "Year"   -> IsPlainDecimal(s, m.year[1])

\* out splits into one part per element, in element order, each the text
\* its element contributes.
RECURSIVE IsConcatenation(_, _, _)
IsConcatenation(elements, m, out) ==
    IF elements = <<>> THEN out = <<>>
    ELSE \E k \in 0..Len(out) :
             /\ IsResolved(Head(elements), m, SubSeq(out, 1, k))
             /\ IsConcatenation(Tail(elements), m,
                                SubSeq(out, k + 1, Len(out)))

\* C2: a template with no field reference compiles, and build_name returns
\* it unchanged whatever the record.
C2_LiteralRoundTrip ==
    TokenStarts(template) = {} =>
        /\ Compiled => format.ok
        /\ Built => built.res = Ok(template)

\* C4: build_name fails exactly when some Tag element's field is absent,
\* with Error::MissingTag of the first such element; the failure carries no
\* string, and the accessors queried are those of the Tag elements up to
\* the failing one and none after it.
C4_MissingTagFailFast ==
    Built =>
        LET missing == MissingAt(format.val, meta) IN
        /\ ~built.res.ok <=> missing # {}
        /\ missing # {} =>
               /\ built.res =
                      Err(ErrorMissingTag(format.val[FirstOf(missing)].tag))
               /\ built.queried = TagsUpTo(format.val, FirstOf(missing))

\* C4 witness: a failed build where a present field precedes two missing
\* ones.
C4_Witness ==
    /\ Built
    /\ ~built.res.ok
    /\ \E i, j, k \in 1..Len(format.val) :
           /\ i < j /\ j < k
           /\ format.val[i].kind = "Tag"
           /\ i \notin MissingAt(format.val, meta)
           /\ j \in MissingAt(format.val, meta)
           /\ k \in MissingAt(format.val, meta)
           /\ format.val[j].tag # format.val[k].tag

\* C5: when every referenced field is present, build_name succeeds and its
\* string is the concatenation, in element order, of each Literal's text
\* and each Tag's value: album title, artist and title verbatim, track
\* number and year as plain decimal strings.
C5_Concatenation ==
    (Built /\ MissingAt(format.val, meta) = {}) =>
        /\ built.res.ok
        /\ IsConcatenation(format.val, meta, built.res.val)

\* C5 witness: a successful build with a numeric field next to a literal,
\* for a record that lacks some field the template does not reference.
C5_Witness ==
    /\ Built
    /\ built.res.ok
    /\ \E i \in 1..Len(format.val) :
           format.val[i].kind = "Tag" /\ format.val[i].tag = "Track"
    /\ \E i \in 1..Len(format.val) : format.val[i].kind = "Literal"
    /\ \E tag \in Tags : Absent(tag, meta)

----------------------------------------------------------------------------
(* Properties of run                                                       *)

\* Whether processing the k-th path fails: its metadata cannot be read, or
\* the record lacks a field the compiled template references.
FailsAt(k) ==
    \/ ~files[k].content.ok
    \/ MissingAt(format.val, files[k].content.val) # {}

\* The error of the k-th path, which fails.
ErrorAt(k) ==
    IF ~files[k].content.ok THEN ErrorAudioTags
    ELSE LET missing == MissingAt(format.val, files[k].content.val) IN
         ErrorMissingTag(format.val[FirstOf(missing)].tag)

\* The line of the k-th path, which succeeds.
LineAt(k) ==
    NewPath(files[k].path,
            BuildName(format.val, files[k].content.val).res.val)

Failing == {k \in 1..Len(files) : FailsAt(k)}

\* C6: the paths are read in the order supplied and a line is printed for
\* each before the next is read; at the first failing path run returns its
\* error, having printed exactly the lines of the paths before it and read
\* no path after it.
C6_SequentialFailFast ==
    (pc \in {"loop", "done"} /\ format.ok) =>
        /\ Len(reads) <= Len(files)
        /\ \A k \in 1..Len(reads) : reads[k] = files[k].path
        /\ Len(stdout) <= Len(reads)
        /\ Len(reads) <= Len(stdout) + 1
        /\ \A k \in 1..Len(stdout) : ~FailsAt(k) /\ stdout[k] = LineAt(k)
        /\ pc = "loop" => Len(reads) = Len(stdout) /\ ret = NotYet
        /\ pc = "done" =>
               IF Failing = {}
               THEN /\ ret = Ok(<<>>)
                    /\ Len(stdout) = Len(files)
                    /\ Len(reads) = Len(files)
               ELSE /\ ret = Err(ErrorAt(FirstOf(Failing)))
                    /\ Len(stdout) = FirstOf(Failing) - 1
                    /\ Len(reads) = FirstOf(Failing)

\* C6 witness: run returned the error of a path after printing a line, with
\* a later path left unread that would have succeeded.
C6_Witness ==
    /\ pc = "done"
    /\ format.ok
    /\ ~ret.ok
    /\ Len(stdout) >= 1
    /\ Len(reads) < Len(files)
    /\ ~FailsAt(Len(files))

\* C7: when the template does not compile, run returns Error::Format with
\* no path read and no line printed.
C7_CompileErrorFirst ==
    BadStarts(template) # {} =>
        /\ pc \in {"run", "done"}
        /\ reads = <<>>
        /\ stdout = <<>>
        /\ pc = "done" =>
               ret = Err(ErrorFormat(KeyAt(template,
                                           FirstOf(BadStarts(template)))))

\* C7 witness: run returned Error::Format with several paths supplied, all
\* of them readable.
C7_Witness ==
    /\ pc = "done"
    /\ ~ret.ok
    /\ ret.err.kind = "Format"
    /\ Len(files) >= 2
    /\ \A k \in 1..Len(files) : files[k].content.ok

\* C8: each printed path keeps the parent directory of its input path, and
\* its file name is the built name, followed by "." and the extension of
\* the input path when that has one.
C8_PrintedPath ==
    (pc \in {"loop", "done"} /\ format.ok) =>
        \A k \in 1..Len(stdout) :
            LET p == files[k].path
                name == BuildName(format.val, files[k].content.val).res.val
            IN /\ Parent(stdout[k]) = Parent(p)
               /\ FileName(stdout[k]) =
                      Some(IF Extension(p) # None
                           THEN name \o <<".">> \o Extension(p)[1]
                           ELSE name)

====
